---- MODULE Spec2Model ----
(***************************************************************************)
(* Model of the Stockfighter HTTP client (src/src/lib.rs).                 *)
(*                                                                         *)
(* StockfighterHttpApi holds two immutable fields (base_url, api_key).     *)
(* Each public operation of the StockfighterAPI trait calls send_raw once  *)
(* and maps the decoded JSON document to a typed value.  Every `.unwrap()` *)
(* and the `panic!` of the source is modelled as the outcome "panic".      *)
(***************************************************************************)
EXTENDS Integers, Sequences, FiniteSets, TLC

VARIABLES
    base_url,   \* StockfighterHttpApi.base_url
    api_key,    \* StockfighterHttpApi.api_key
    op,         \* the public operation invoked last ("none" before any call)
    args,       \* its arguments
    network,    \* what the network does with a request (the environment)
    requests,   \* the HTTP requests that invocation issued, in order
    outcome     \* how that invocation ended: Ok(v), Err(s) or Panic(msg)

vars == <<base_url, api_key, op, args, network, requests, outcome>>

----------------------------------------------------------------------------
(* Bounds of the model.                                                    *)

MaxVenues == 2      \* longest `venues` array the server sends
MaxBids   == 2      \* longest `bids` array
MaxAsks   == 1      \* longest `asks` array

----------------------------------------------------------------------------
(* serde_json::Value.  A value is [t |-> tag, v |-> payload]; an object's  *)
(* payload is a function from the keys present to values, an array's a     *)
(* sequence.  Numbers are the non-negative integers, the ones as_u64       *)
(* accepts as they are; a field "of the wrong type" holds a string, a      *)
(* boolean or a number where another type is read.                         *)

JBool(b) == [t |-> "bool", v |-> b]
JNum(n)  == [t |-> "u64",  v |-> n]
JStr(s)  == [t |-> "str",  v |-> s]
JArr(a)  == [t |-> "arr",  v |-> a]
JObj(f)  == [t |-> "obj",  v |-> f]

\* A field the server left out of an object (used only to build objects).
Absent == [t |-> "absent", v |-> 0]

\* The object holding exactly the fields of f that are not Absent.
MkObj(f) == JObj([k \in {x \in DOMAIN f : f[x].t # "absent"} |-> f[k]])

\* A body that is not a JSON document.
Garbage == [t |-> "invalid", v |-> "<html>502 Bad Gateway</html>"]

\* Value::as_object / Map::get / Value::as_boolean, as_string, as_u64,
\* as_array: `json.get(k).unwrap().as_T().unwrap()` succeeds exactly when
\* the key is present and its value has the tag.
is_object(value) == value.t = "obj"
has_as(json, k, tag) == k \in DOMAIN json /\ json[k].t = tag

----------------------------------------------------------------------------
(* Result<T, String> and a panic.                                          *)

Ok(v)      == [kind |-> "ok",    val |-> v]
Err(s)     == [kind |-> "err",   val |-> s]
Panic(msg) == [kind |-> "panic", val |-> msg]

Unit == "()"

\* The panic messages of Option::unwrap on None and of Result::unwrap on
\* Err(e).
UnwrapNone   == "called Option::unwrap() on a None value"
UnwrapErr(e) == "called Result::unwrap() on an Err value: " \o e
UnwrapParseError == "called Result::unwrap() on an Err value: ParseError"

HeaderName == "X-Starfighter-Authorization"

----------------------------------------------------------------------------
(* send_raw: one GET to base_url ++ path with the authorization header;    *)
(* the body is decoded as JSON.  t is what the network did.                *)

\* The request send_raw builds for a path.
get_request(path) ==
    [method |-> "GET",
     url    |-> base_url \o path,
     header |-> <<HeaderName, api_key>>]

\* What send_raw returns when the network does t.
send_raw_result(t) ==
    IF t.net = "fail" THEN Err("Error sending request")
    ELSE IF t.body.t = "invalid" THEN Err("Response body invalid")
    ELSE Ok(t.body)

\* A send_raw that sends the request again when sending failed.
send_raw_retrying(path, t) ==
    [requests |-> IF t.net = "fail"
                  THEN <<get_request(path), get_request(path)>>
                  ELSE <<get_request(path)>>,
     result   |-> send_raw_result(t)]

send_raw(path, t) ==
    [requests |-> <<get_request(path)>>, result |-> send_raw_result(t)]

----------------------------------------------------------------------------
(* The endpoint mappers, applied to the result of send_raw.                *)

\* `return Err(json.get("error").unwrap().as_string().unwrap().to_owned())`
api_error(json) ==
    IF has_as(json, "error", "str") THEN Err(json["error"].v)
    ELSE Panic(UnwrapNone)

\* A heartbeat that takes any object with a boolean `ok` for a success.
heartbeat_ignoring_flag(res) ==
    IF res.kind = "err" THEN Panic(UnwrapErr(res.val))
    ELSE IF ~is_object(res.val) THEN Panic(UnwrapNone)
    ELSE IF ~has_as(res.val.v, "ok", "bool") THEN Panic(UnwrapNone)
    ELSE Ok(Unit)

heartbeat_body(res) ==
    IF res.kind = "err" THEN Panic(UnwrapErr(res.val))
    ELSE IF ~is_object(res.val) THEN Panic(UnwrapNone)
    ELSE LET json == res.val.v IN
         IF ~has_as(json, "ok", "bool") THEN Panic(UnwrapNone)
         ELSE IF ~json["ok"].v THEN api_error(json)
         ELSE Ok(Unit)

venue_heartbeat_body(res) ==
    IF res.kind = "err" THEN Panic(UnwrapErr(res.val))
    ELSE IF ~is_object(res.val) THEN Panic(UnwrapNone)
    ELSE LET json == res.val.v IN
         IF ~has_as(json, "ok", "bool") THEN Panic(UnwrapNone)
         ELSE IF ~json["ok"].v THEN api_error(json)
         ELSE Ok(Unit)

\* A collection that leaves out the elements that could not be mapped.
from_iter_skipping(results) ==
    Ok(LET kept == SelectSeq(results, LAMBDA r : r.kind # "panic")
       IN [i \in 1..Len(kept) |-> kept[i].val])

\* Vec::from_iter over a lazy `map`: the elements are mapped in array order
\* and the first one that panics ends the call; otherwise the values are
\* collected in that order.
from_iter(results) ==
    IF \E i \in 1..Len(results) : results[i].kind = "panic"
    THEN results[CHOOSE i \in 1..Len(results) :
                    /\ results[i].kind = "panic"
                    /\ \A j \in 1..(i - 1) : results[j].kind # "panic"]
    ELSE Ok([i \in 1..Len(results) |-> results[i].val])

\* An `is_open` block whose last branch answers false instead of panicking.
venue_is_open_lenient(venue) ==
    IF ~is_object(venue) THEN Panic(UnwrapNone)
    ELSE IF ~has_as(venue.v, "state", "str") THEN Panic(UnwrapNone)
    ELSE Ok(venue.v["state"].v = "open")

\* The `is_open` block of the closure of venues.
venue_is_open(venue) ==
    IF ~is_object(venue) THEN Panic(UnwrapNone)
    ELSE IF ~has_as(venue.v, "state", "str") THEN Panic(UnwrapNone)
    ELSE LET state == venue.v["state"].v IN
         IF state = "open" THEN Ok(TRUE)
         ELSE IF state = "closed" THEN Ok(FALSE)
         ELSE Panic("Unexpected value for venue state: '" \o state \o "'")

\* The closure of venues: one array element to one VenueInfo.
venue_info(venue) ==
    LET is_open == venue_is_open(venue) IN
    IF is_open.kind = "panic" THEN is_open
    ELSE IF ~has_as(venue.v, "id", "u64") THEN Panic(UnwrapNone)
    ELSE IF ~has_as(venue.v, "name", "str") THEN Panic(UnwrapNone)
    ELSE IF ~has_as(venue.v, "venue", "str") THEN Panic(UnwrapNone)
    ELSE Ok([id      |-> venue.v["id"].v,
             name    |-> venue.v["name"].v,
             is_open |-> is_open.val,
             venue   |-> venue.v["venue"].v])

\* The flag the other three operations read.
venues_flag_ok == "ok"

\* The name of the success flag venues reads.
venues_flag == "id"

venues_body(res) ==
    IF res.kind = "err" THEN Panic(UnwrapErr(res.val))
    ELSE IF ~is_object(res.val) THEN Panic(UnwrapNone)
    ELSE LET json == res.val.v IN
         IF ~has_as(json, venues_flag, "bool") THEN Panic(UnwrapNone)
         ELSE IF ~json[venues_flag].v THEN api_error(json)
         ELSE IF ~has_as(json, "venues", "arr") THEN Panic(UnwrapNone)
         ELSE LET venues == json["venues"].v IN
              from_iter([i \in 1..Len(venues) |-> venue_info(venues[i])])

\* The closures of stock_orderbook: one array element to one Order.
bid_order(bid) ==
    IF ~is_object(bid) THEN Panic(UnwrapNone)
    ELSE IF ~has_as(bid.v, "price", "u64") THEN Panic(UnwrapNone)
    ELSE IF ~has_as(bid.v, "qty", "u64") THEN Panic(UnwrapNone)
    ELSE Ok([price |-> bid.v["price"].v, qty |-> bid.v["qty"].v, is_buy |-> TRUE])

\* An ask closure copied from the bid closure with its is_buy left as it was.
ask_order_as_bid(ask) ==
    IF ~is_object(ask) THEN Panic(UnwrapNone)
    ELSE IF ~has_as(ask.v, "price", "u64") THEN Panic(UnwrapNone)
    ELSE IF ~has_as(ask.v, "qty", "u64") THEN Panic(UnwrapNone)
    ELSE Ok([price |-> ask.v["price"].v, qty |-> ask.v["qty"].v, is_buy |-> TRUE])

ask_order(ask) ==
    IF ~is_object(ask) THEN Panic(UnwrapNone)
    ELSE IF ~has_as(ask.v, "price", "u64") THEN Panic(UnwrapNone)
    ELSE IF ~has_as(ask.v, "qty", "u64") THEN Panic(UnwrapNone)
    ELSE Ok([price |-> ask.v["price"].v, qty |-> ask.v["qty"].v, is_buy |-> FALSE])

\* NaiveDateTime::parse_from_str(s, "%+"): the date and time of an ISO 8601
\* string with an offset, an error for any other string.
parse_from_str(s) ==
    IF s = "2015-12-04T09:02:16Z"
    THEN Ok([year |-> 2015, month |-> 12, day |-> 4,
             hour |-> 9, minute |-> 2, second |-> 16])
    ELSE Err("ParseError")

\* The order book of a response whose flag is true.  `bids` and `asks` are
\* lazy iterators: the two arrays are looked up first, then the timestamp
\* is parsed, and the elements are mapped when the Orderbook is built.
orderbook_of(json) ==
    IF ~has_as(json, "bids", "arr") THEN Panic(UnwrapNone)
    ELSE IF ~has_as(json, "asks", "arr") THEN Panic(UnwrapNone)
    ELSE IF ~has_as(json, "ts", "str") THEN Panic(UnwrapNone)
    ELSE LET bids == json["bids"].v
             asks == json["asks"].v
             timestamp == parse_from_str(json["ts"].v)
             bidv == from_iter([i \in 1..Len(bids) |-> bid_order(bids[i])])
             askv == from_iter([i \in 1..Len(asks) |-> ask_order(asks[i])])
         IN
         IF timestamp.kind = "err" THEN Panic(UnwrapParseError)
         ELSE IF bidv.kind = "panic" THEN bidv
         ELSE IF askv.kind = "panic" THEN askv
         ELSE Ok([bids |-> bidv.val, asks |-> askv.val,
                  timestamp |-> timestamp.val])

\* A stock_orderbook that maps the payload before it looks at the flag.
stock_orderbook_payload_first(res) ==
    IF res.kind = "err" THEN Panic(UnwrapErr(res.val))
    ELSE IF ~is_object(res.val) THEN Panic(UnwrapNone)
    ELSE LET json == res.val.v
             book == orderbook_of(json)
         IN
         IF book.kind = "panic" THEN book
         ELSE IF ~has_as(json, "ok", "bool") THEN Panic(UnwrapNone)
         ELSE IF ~json["ok"].v THEN api_error(json)
         ELSE book

stock_orderbook_body(res) ==
    IF res.kind = "err" THEN Panic(UnwrapErr(res.val))
    ELSE IF ~is_object(res.val) THEN Panic(UnwrapNone)
    ELSE LET json == res.val.v IN
         IF ~has_as(json, "ok", "bool") THEN Panic(UnwrapNone)
         ELSE IF ~json["ok"].v THEN api_error(json)
         ELSE orderbook_of(json)

----------------------------------------------------------------------------
(* The environment: what the server may answer.                            *)

ErrorVals == {Absent, JStr("down"), JStr("closed"), JNum(0)}
FlagVals  == {Absent, JBool(TRUE), JBool(FALSE), JStr("true")}

NetFail == [net |-> "fail", body |-> Absent]
Answer(b) == [net |-> "ok", body |-> b]

\* All sequences over S of length at most n.
SeqsUpTo(S, n) == UNION {[1..k -> S] : k \in 0..n}

Venue(id, name, venue, state) ==
    MkObj([id |-> id, name |-> name, venue |-> venue, state |-> state])

VenueElems ==
    { Venue(JNum(1), JStr("Test Exchange"), JStr("TESTEX"), JStr("open")),
      Venue(JNum(2), JStr("Other Exchange"), JStr("OTHEX"), JStr("closed")),
      Venue(JNum(3), JStr("Odd Exchange"), JStr("ODDEX"), JStr("halted")),
      Venue(JNum(4), JStr("No State"), JStr("NOSTEX"), Absent),
      Venue(JNum(5), JStr("Flag State"), JStr("FLAGEX"), JBool(TRUE)),
      Venue(Absent, JStr("No Id"), JStr("NOIDEX"), JStr("open")),
      Venue(JStr("7"), JStr("Text Id"), JStr("TXTEX"), JStr("closed")),
      Venue(JNum(8), Absent, JStr("NONAME"), JStr("open")),
      Venue(JNum(9), JStr("No Venue"), JNum(9), JStr("halted")),
      JStr("TESTEX") }

VenuesVals ==
    {Absent, JStr("none")} \cup {JArr(a) : a \in SeqsUpTo(VenueElems, MaxVenues)}

OrderElem(price, qty) == MkObj([price |-> price, qty |-> qty])

OrderElems ==
    { OrderElem(JNum(100), JNum(5)),
      OrderElem(JNum(110), JNum(3)),
      OrderElem(Absent, JNum(3)),
      OrderElem(JNum(100), JStr("5")),
      JNum(100) }

BidsVals == {Absent, JNum(0)} \cup {JArr(a) : a \in SeqsUpTo(OrderElems, MaxBids)}
AsksVals == {Absent, JNum(0)} \cup {JArr(a) : a \in SeqsUpTo(OrderElems, MaxAsks)}

TsVals ==
    {Absent, JNum(1449219736), JStr("yesterday"), JStr("2015-12-04T09:02:16Z")}

\* The fields of an answer that only the venues endpoint, or only the order
\* book endpoint, sends.
HasAny(answer, keys) ==
    /\ answer.net = "ok"
    /\ answer.body.t = "obj"
    /\ keys \cap DOMAIN answer.body.v # {}

HeartbeatAnswer(answer) == ~HasAny(answer, {"venues", "bids", "asks", "ts"})
VenuesAnswer(answer)    == ~HasAny(answer, {"bids", "asks", "ts"})
OrderbookAnswer(answer) == ~HasAny(answer, {"venues", "id"})

BaseUrls == {"https://api.stockfighter.io/ob/api"}
VenueArgs == {"TESTEX", "A B"}
StockArgs == {"FOOBAR"}

----------------------------------------------------------------------------
(* The public operations.                                                  *)

\* Each operation is one synchronous call: it sends its request, the
\* network answers, and the answer is mapped.  An operation is tried against
\* the answers of its own endpoint.

heartbeat ==
    /\ HeartbeatAnswer(network)
    /\ LET sent == send_raw("/heartbeat", network) IN
       /\ op' = "heartbeat"
       /\ args' = <<>>
       /\ requests' = sent.requests
       /\ outcome' = heartbeat_body(sent.result)
    /\ UNCHANGED <<base_url, api_key, network>>

venues ==
    /\ VenuesAnswer(network)
    /\ LET sent == send_raw("/venues", network) IN
       /\ op' = "venues"
       /\ args' = <<>>
       /\ requests' = sent.requests
       /\ outcome' = venues_body(sent.result)
    /\ UNCHANGED <<base_url, api_key, network>>

venue_heartbeat ==
    /\ HeartbeatAnswer(network)
    /\ \E venue \in VenueArgs :
        LET path == "/venues/" \o venue \o "/heartbeat"
            sent == send_raw(path, network)
        IN
        /\ op' = "venue_heartbeat"
        /\ args' = <<venue>>
        /\ requests' = sent.requests
        /\ outcome' = venue_heartbeat_body(sent.result)
    /\ UNCHANGED <<base_url, api_key, network>>

stock_orderbook ==
    /\ OrderbookAnswer(network)
    /\ \E venue \in VenueArgs, stock \in StockArgs :
        LET path == "/venues/" \o venue \o "/stocks/" \o stock
            sent == send_raw(path, network)
        IN
        /\ op' = "stock_orderbook"
        /\ args' = <<venue, stock>>
        /\ requests' = sent.requests
        /\ outcome' = stock_orderbook_body(sent.result)
    /\ UNCHANGED <<base_url, api_key, network>>

\* The client as constructed, before any call, facing any network.
Init ==
    /\ base_url \in BaseUrls
    /\ api_key = "0123abcd"
    /\ op = "none"
    /\ args = <<>>
    /\ \/ network = NetFail
       \/ \E b \in {Garbage, JNum(7), JArr(<<>>)} : network = Answer(b)
       \/ \E o \in FlagVals, i \in FlagVals, e \in ErrorVals, v \in VenuesVals :
             network = Answer(MkObj([ok |-> o, id |-> i, error |-> e, venues |-> v]))
       \/ \E o \in FlagVals, e \in ErrorVals, b \in BidsVals, a \in AsksVals,
             ts \in TsVals :
             network = Answer(MkObj([ok |-> o, error |-> e, bids |-> b,
                                     asks |-> a, ts |-> ts]))
    /\ requests = <<>>
    /\ outcome = [kind |-> "none", val |-> Unit]

Next ==
    \/ heartbeat
    \/ venues
    \/ venue_heartbeat
    \/ stock_orderbook

Spec == Init /\ [][Next]_vars

----------------------------------------------------------------------------
(* Vocabulary of the properties: the answer the last call saw, read        *)
(* directly as a JSON document.                                            *)

Called == op # "none"

\* The network delivered a JSON object.
GotObject == network.net = "ok" /\ network.body.t = "obj"

\* The fields of that object.
Top == network.body.v

\* Field k of object f is present and has the given JSON type.
Present(f, k, tag) == k \in DOMAIN f /\ f[k].t = tag

\* Field k of object f is present and is exactly the value x.
FieldIs(f, k, x) == k \in DOMAIN f /\ f[k] = x

\* The success flag each endpoint answers with.
FlagOf(o) == IF o = "venues" THEN "id" ELSE "ok"

\* The path of each endpoint.
PathOf(o, a) ==
    CASE o = "heartbeat"       -> "/heartbeat"
      [] o = "venues"          -> "/venues"
      [] o = "venue_heartbeat" -> "/venues/" \o a[1] \o "/heartbeat"
      [] o = "stock_orderbook" -> "/venues/" \o a[1] \o "/stocks/" \o a[2]

\* The object answers success / failure with message text.
FlagTrue  == GotObject /\ FieldIs(Top, FlagOf(op), JBool(TRUE))
FlagFalse == GotObject /\ FieldIs(Top, FlagOf(op), JBool(FALSE))

\* An array element with every required field of a venue, each of its type.
VenueShaped(e) ==
    /\ e.t = "obj"
    /\ Present(e.v, "id", "u64")
    /\ Present(e.v, "name", "str")
    /\ Present(e.v, "venue", "str")
    /\ Present(e.v, "state", "str")

\* A venue element whose state is a string other than "open" and "closed".
OddState(e) ==
    /\ e.t = "obj"
    /\ Present(e.v, "state", "str")
    /\ e.v["state"].v \notin {"open", "closed"}

ValidVenue(e) == VenueShaped(e) /\ ~OddState(e)

\* An array element with every required field of an order.
OrderShaped(e) ==
    /\ e.t = "obj"
    /\ Present(e.v, "price", "u64")
    /\ Present(e.v, "qty", "u64")

AllOf(a, P(_)) == \A i \in 1..Len(a) : P(a[i])

\* Every required field of the payload is present and of its JSON type.
VenuesShaped == Present(Top, "venues", "arr") /\ AllOf(Top["venues"].v, VenueShaped)

OrderbookShaped ==
    /\ Present(Top, "bids", "arr") /\ AllOf(Top["bids"].v, OrderShaped)
    /\ Present(Top, "asks", "arr") /\ AllOf(Top["asks"].v, OrderShaped)
    /\ Present(Top, "ts", "str")

\* The timestamps of the model in the strict ISO 8601 format.
StrictTimestamps == {"2015-12-04T09:02:16Z"}

\* The Order the i-th element of array a stands for on the given side.
OrderAt(a, i, buy) ==
    [price |-> a[i].v["price"].v, qty |-> a[i].v["qty"].v, is_buy |-> buy]

----------------------------------------------------------------------------
(* The properties.                                                         *)

\* C1: whenever the body of the response is not valid JSON, the call
\* returns the error value "Response body invalid" to its caller (it does
\* not end in a panic).
C1_InvalidBodyIsReturned ==
    (Called /\ network.net = "ok" /\ network.body.t = "invalid")
        => outcome = Err("Response body invalid")

\* C2: whenever the transport step fails (the request cannot be sent, or
\* the body is not JSON), the outcome of the operation is the very Err that
\* send_raw produced.
C2_TransportErrorPropagated ==
    (Called /\ send_raw_result(network).kind = "err")
        => outcome = send_raw_result(network)

\* C3: whenever the response is an object whose success flag is true and a
\* required field of the payload is missing or of the wrong JSON type, the
\* call returns an error value (it neither panics nor succeeds).
C3_ShapeErrorIsReturned ==
    /\ (op = "venues" /\ FlagTrue /\ ~VenuesShaped) => outcome.kind = "err"
    /\ (op = "stock_orderbook" /\ FlagTrue /\ ~OrderbookShaped)
           => outcome.kind = "err"

\* C4: heartbeat and venue_heartbeat return Ok(()) for an object with
\* ok = true, and Err(m) for an object with ok = false and error = m, for
\* every string m.
C4_HeartbeatResult ==
    (op \in {"heartbeat", "venue_heartbeat"} /\ GotObject) =>
        /\ FieldIs(Top, "ok", JBool(TRUE)) => outcome = Ok(Unit)
        /\ (FieldIs(Top, "ok", JBool(FALSE)) /\ Present(Top, "error", "str"))
               => outcome = Err(Top["error"].v)

C4_Witness ==
    /\ op = "venue_heartbeat"
    /\ GotObject
    /\ FieldIs(Top, "ok", JBool(FALSE))
    /\ FieldIs(Top, "error", JStr("closed"))
    /\ outcome = Err("closed")

\* C5: in a venues response that answers success, an element with state
\* "open" becomes a VenueInfo with is_open = TRUE and one with state
\* "closed" a VenueInfo with is_open = FALSE; when an element has any other
\* state string the call is rejected (no list is returned), and when that
\* element is the first one that cannot be mapped the rejection is the
\* panic "Unexpected value for venue state".
C5_VenueState ==
    (op = "venues" /\ FlagTrue /\ Present(Top, "venues", "arr")) =>
        LET a == Top["venues"].v IN
        /\ outcome.kind = "ok" =>
              /\ Len(outcome.val) = Len(a)
              /\ \A i \in 1..Len(a) :
                    /\ Present(a[i].v, "state", "str")
                    /\ a[i].v["state"].v \in {"open", "closed"}
                    /\ outcome.val[i].is_open = (a[i].v["state"].v = "open")
        /\ (\E i \in 1..Len(a) : OddState(a[i])) => outcome.kind = "panic"
        /\ \A i \in 1..Len(a) :
              (OddState(a[i]) /\ \A j \in 1..(i - 1) : ValidVenue(a[j])) =>
                  outcome = Panic("Unexpected value for venue state: '"
                                    \o a[i].v["state"].v \o "'")

C5_Witness ==
    /\ op = "venues"
    /\ FlagTrue
    /\ Present(Top, "venues", "arr")
    /\ Len(Top["venues"].v) = 2
    /\ ValidVenue(Top["venues"].v[1])
    /\ VenueShaped(Top["venues"].v[2]) /\ OddState(Top["venues"].v[2])
    /\ outcome = Panic("Unexpected value for venue state: 'halted'")

C7_VenuesFlagIsId ==
    (op = "venues" /\ GotObject) =>
        /\ ( /\ FieldIs(Top, "id", JBool(TRUE))
             /\ VenuesShaped
             /\ AllOf(Top["venues"].v, ValidVenue) ) =>
               LET a == Top["venues"].v IN
               /\ outcome.kind = "ok"
               /\ Len(outcome.val) = Len(a)
               /\ \A i \in 1..Len(a) :
                     /\ outcome.val[i].id = a[i].v["id"].v
                     /\ outcome.val[i].name = a[i].v["name"].v
                     /\ outcome.val[i].venue = a[i].v["venue"].v
        /\ (FieldIs(Top, "id", JBool(FALSE)) /\ Present(Top, "error", "str"))
               => outcome = Err(Top["error"].v)

C7_Witness ==
    /\ op = "venues"
    /\ GotObject
    /\ FieldIs(Top, "id", JBool(TRUE))
    /\ FieldIs(Top, "ok", JBool(FALSE))
    /\ outcome.kind = "ok"
    /\ Len(outcome.val) = 2
    /\ outcome.val[1].id = 2
    /\ outcome.val[2].id = 1

\* C8: venues and stock_orderbook return a success value only when every
\* array element and the timestamp were mapped: the result then has as
\* many entries as the arrays of the response, so no success value ever
\* holds only the valid part of a response.
C8_NoPartialResults ==
    /\ (op = "venues" /\ GotObject /\ outcome.kind = "ok") =>
          /\ VenuesShaped
          /\ AllOf(Top["venues"].v, ValidVenue)
          /\ Len(outcome.val) = Len(Top["venues"].v)
    /\ (op = "stock_orderbook" /\ GotObject /\ outcome.kind = "ok") =>
          /\ OrderbookShaped
          /\ Top["ts"].v \in StrictTimestamps
          /\ Len(outcome.val.bids) = Len(Top["bids"].v)
          /\ Len(outcome.val.asks) = Len(Top["asks"].v)

C8_Witness ==
    /\ op = "stock_orderbook"
    /\ FlagTrue
    /\ Present(Top, "bids", "arr") /\ Present(Top, "asks", "arr")
    /\ Present(Top, "ts", "str") /\ Top["ts"].v \in StrictTimestamps
    /\ Len(Top["bids"].v) = 2
    /\ OrderShaped(Top["bids"].v[1])
    /\ ~OrderShaped(Top["bids"].v[2])
    /\ AllOf(Top["asks"].v, OrderShaped)
    /\ outcome.kind = "panic"

\* C9: an invocation issues exactly one request, a GET to base_url followed
\* by the path of the endpoint as given, with the X-Starfighter-Authorization
\* header carrying the key, whatever its outcome; and a call leaves nothing
\* behind that a later call reads: the configuration never changes, and
\* the same operation invoked again against the same answer ends as before.
C9_OneRequest ==
    Called =>
        /\ Len(requests) = 1
        /\ requests[1].method = "GET"
        /\ requests[1].url = base_url \o PathOf(op, args)
        /\ requests[1].header = <<"X-Starfighter-Authorization", api_key>>

C9_CallStep ==
    /\ base_url' = base_url
    /\ api_key' = api_key
    /\ (op' = op /\ args' = args) => (outcome' = outcome /\ requests' = requests)
    /\ Len(requests') = 1

C10_FailureIgnoresPayload ==
    (Called /\ FlagFalse /\ Present(Top, "error", "str"))
        => outcome = Err(Top["error"].v)

C10_Witness ==
    /\ op = "stock_orderbook"
    /\ FlagFalse
    /\ FieldIs(Top, "error", JStr("down"))
    /\ Present(Top, "bids", "arr")
    /\ Len(Top["bids"].v) = 1
    /\ ~OrderShaped(Top["bids"].v[1])
    /\ "ts" \notin DOMAIN Top
    /\ outcome = Err("down")

====
